---- MODULE Spec2Model ----
(***************************************************************************)
(* Auto-resolve Service Desk: the ticket coordination pipeline and the     *)
(* queue receive loop (shared/service_bus_coordinator.py, with the queue   *)
(* settings of scripts/create_servicebus_queues.py), the triage classifier *)
(* (agents/triage-agent/azure_integration.py), the knowledge retriever     *)
(* (agents/knowledge-agent/azure_integration.py) and the feedback endpoint *)
(* of the learning agent (agents/learning-agent/main.py).                  *)
(*                                                                         *)
(* Python strings are sequences of one-character strings, so that lower(), *)
(* substring tests, replace() and number formatting are computed.  A       *)
(* dictionary entry that may be absent or None is an Opt record.           *)
(***************************************************************************)
EXTENDS Integers, Sequences, FiniteSets, TLC

----------------------------------------------------------------------------
(* Strings *)

UpperChars == <<"A","B","C","D","E","F","G","H","I","J","K","L","M",
                "N","O","P","Q","R","S","T","U","V","W","X","Y","Z">>

LowerChars == <<"a","b","c","d","e","f","g","h","i","j","k","l","m",
                "n","o","p","q","r","s","t","u","v","w","x","y","z">>

DigitChars == <<"0","1","2","3","4","5","6","7","8","9">>

\* str.lower() on one character
LowerChar(c) ==
    IF \E i \in 1..26 : UpperChars[i] = c
    THEN LowerChars[CHOOSE i \in 1..26 : UpperChars[i] = c]
    ELSE c

\* str.lower()
Lower(s) == [i \in 1..Len(s) |-> LowerChar(s[i])]

\* the Python test  w in s  (substring)
Contains(s, w) ==
    \E i \in 0..(Len(s) - Len(w)) : \A j \in 1..Len(w) : s[i + j] = w[j]

\* any(word in s for word in words)
AnyIn(words, s) == \E k \in 1..Len(words) : Contains(s, words[k])

\* str.replace(c, "") for a one-character c
RemoveChar(s, c) == SelectSeq(s, LAMBDA x : x # c)

DigitVal(c) == (CHOOSE i \in 1..10 : DigitChars[i] = c) - 1

RECURSIVE ParseInt(_)
\* int() of a string of decimal digits
ParseInt(s) ==
    IF Len(s) = 0 THEN 0
    ELSE 10 * ParseInt(SubSeq(s, 1, Len(s) - 1)) + DigitVal(s[Len(s)])

\* index of the decimal point, 0 when there is none
DotIndex(s) ==
    IF \E i \in 1..Len(s) : s[i] = "."
    THEN CHOOSE i \in 1..Len(s) : s[i] = "." /\ \A j \in 1..(i - 1) : s[j] # "."
    ELSE 0

\* float() of a decimal literal with at most two fraction digits, as hundredths
ParseFloat(s) ==
    LET p == DotIndex(s) IN
    IF p = 0 THEN 100 * ParseInt(s)
    ELSE LET frac == SubSeq(s, p + 1, Len(s)) IN
         100 * ParseInt(SubSeq(s, 1, p - 1))
           + (IF Len(frac) = 0 THEN 0
              ELSE IF Len(frac) = 1 THEN 10 * DigitVal(frac[1])
              ELSE 10 * DigitVal(frac[1]) + DigitVal(frac[2]))

RECURSIVE IntToStr(_)
\* str() of a natural number
IntToStr(n) ==
    IF n < 10 THEN <<DigitChars[n + 1]>>
    ELSE IntToStr(n \div 10) \o <<DigitChars[(n % 10) + 1]>>

\* f"{x:.1f}s" for x given in hundredths: one fraction digit, rounded
FormatSeconds(x) ==
    LET tenths == (x + 5) \div 10 IN
    IntToStr(tenths \div 10) \o <<".">> \o <<DigitChars[(tenths % 10) + 1]>> \o <<"s">>

\* float(duration.replace("s", "")), in hundredths of a second
DurationSeconds(d) == ParseFloat(RemoveChar(d, "s"))

----------------------------------------------------------------------------
(* Optional dictionary entries *)

\* kind "str" holds a string in s, kind "num" a number in n (hundredths)
Some(s)  == [kind |-> "str", s |-> s, n |-> 0]
Num(n)   == [kind |-> "num", s |-> <<>>, n |-> n]
None     == [kind |-> "none", s |-> <<>>, n |-> 0]
Missing  == [kind |-> "missing", s |-> <<>>, n |-> 0]

\* dict.get(key, default): the default only replaces an absent key
Get(entry, default) == IF entry.kind = "missing" THEN Some(default) ELSE entry

----------------------------------------------------------------------------
(* Agent names and duration literals of the coordinator *)

S_triage     == <<"t","r","i","a","g","e">>
S_knowledge  == <<"k","n","o","w","l","e","d","g","e">>
S_automation == <<"a","u","t","o","m","a","t","i","o","n">>
S_escalation == <<"e","s","c","a","l","a","t","i","o","n">>
S_learning   == <<"l","e","a","r","n","i","n","g">>
S_analytics  == <<"a","n","a","l","y","t","i","c","s">>

S_Knowledge  == <<"K">> \o Tail(S_knowledge)
S_Automation == <<"A">> \o Tail(S_automation)
S_Escalation == <<"E">> \o Tail(S_escalation)
S_Learning   == <<"L">> \o Tail(S_learning)
S_Analytics  == <<"A">> \o Tail(S_analytics)

D_2_3s == <<"2",".","3","s">>
D_1_8s == <<"1",".","8","s">>
D_3_2s == <<"3",".","2","s">>
D_1_5s == <<"1",".","5","s">>
D_4_1s == <<"4",".","1","s">>
D_0_8s == <<"0",".","8","s">>
D_0_5s == <<"0",".","5","s">>
D_1_0s == <<"1",".","0","s">>
D_60s  == <<"6","0","s">>

----------------------------------------------------------------------------
(* ServiceBusCoordinator.coordinate_ticket_processing *)

VARIABLES
    pc,              \* position of each invocation of coordinate_ticket_processing
    ticket,          \* the ticket argument of each invocation
    processing_log,  \* the processing_log dictionary of each invocation
    exc,             \* str(e) of the exception being handled, per invocation
    invoked,         \* the calls of _process_with_agent made by each invocation
    cancelled        \* whether the task of each invocation was cancelled

coordVars == <<pc, ticket, processing_log, exc, invoked, cancelled>>

VARIABLES
    search_client,   \* self.search_client: "None" until initialize() succeeded
    kn_ticket,       \* the ticket of the last search_knowledge call
    kn_backend,      \* what the search backend did in that call
    kn_requests,     \* number of requests that call sent to the backend
    kn_result,       \* the dictionary that call returned
    kn_pc,           \* "returned" while the caller holds the result of a call
    kn_events        \* what that call did, in order: "attempt" (the search
                     \* statement was executed), "request" (a request reached
                     \* the backend), "fallback" (_fallback_search ran)

knowledgeVars ==
    <<search_client, kn_ticket, kn_backend, kn_requests, kn_result, kn_pc, kn_events>>

VARIABLES
    openai_client,   \* self.openai_client: "None" until initialize() succeeded
    tr_ticket,       \* the ticket of the last classify_ticket call
    tr_backend,      \* what chat.completions.create did in that call
    tr_requests,     \* number of requests that call sent to the backend
    tr_result,       \* the dictionary that call returned
    tr_pc,           \* "returned" while the caller holds the result of a call
    tr_events        \* what that call did, in order: "attempt", "request",
                     \* "fallback" (_fallback_classification ran)

triageVars ==
    <<openai_client, tr_ticket, tr_backend, tr_requests, tr_result, tr_pc, tr_events>>

VARIABLES
    msg_state,       \* each message of the queue: "absent", "active", "locked",
                     \* "completed" or "dead" (dead-lettered)
    deliveries,      \* how often the queue delivered each message to a receiver
    last_delivery,   \* what receive_messages did with the last delivery of each
    all_failed,      \* whether the handler raised on every delivery so far
    rx_pc,           \* position of the receive_messages call
    rx_msg,          \* the message the loop body is working on
    servicebus_client, \* self.servicebus_client: "None", "open", or "closed"
                     \* once a call has left its `async with` block
    rx_live,         \* whether the receiver of the running loop is usable
    tx_pc,           \* position of the send_message call
    tx_live,         \* whether the sender of the running send is usable
    tx_result        \* what the last send_message call returned

queueVars == <<msg_state, deliveries, last_delivery, all_failed>>

busVars == <<queueVars, rx_pc, rx_msg, servicebus_client, rx_live,
             tx_pc, tx_live, tx_result>>

VARIABLES
    feedback_data,        \* the module-level list of feedback entries
    performance_metrics,  \* the module-level metrics dictionary
    fb_responses          \* what process_feedback returned, call by call

learningVars == <<feedback_data, performance_metrics, fb_responses>>

\* concurrent invocations on one coordinator
Tasks == {1, 2}

TicketIds == {"TKT-001", "TKT-002"}

S_Billing == <<"B","i","l","l","i","n","g">>
S_KNOWLEDGE == <<"K","N","O","W","L","E","D","G","E">>

\* values of the ticket's "expectedAgent" entry
ExpectedAgents ==
    { Missing, None,
      Some(S_Knowledge), Some(S_KNOWLEDGE), Some(S_automation), Some(S_Escalation),
      Some(S_Learning), Some(S_Analytics), Some(S_Billing) }

Tickets == [id : TicketIds, expectedAgent : ExpectedAgents]

NoTicket == [id |-> "", expectedAgent |-> Missing]

\* what awaiting one agent call does: it returns the agent's response, or
\* raises an exception e whose str(e) is msg (str(TimeoutError()) is "")
AgentOutcomes ==
    { [raises |-> FALSE, msg |-> ""],
      [raises |-> TRUE,  msg |-> ""],
      [raises |-> TRUE,  msg |-> "agent unavailable"] }

AttributeErrorMsg == "'NoneType' object has no attribute 'lower'"

\* mock_responses.get(agent_name, {"processing_time": "1.0s"})
process_with_agent(agent_name, data) ==
    CASE agent_name = S_triage ->
           [body |-> S_triage,
            assigned_agent |-> Get(data.expectedAgent, S_Escalation),
            processing_time |-> Some(D_2_3s)]
      [] agent_name = S_knowledge ->
           [body |-> S_knowledge, assigned_agent |-> Missing,
            processing_time |-> Some(D_1_8s)]
      [] agent_name = S_automation ->
           [body |-> S_automation, assigned_agent |-> Missing,
            processing_time |-> Some(D_3_2s)]
      [] agent_name = S_escalation ->
           [body |-> S_escalation, assigned_agent |-> Missing,
            processing_time |-> Some(D_1_5s)]
      [] agent_name = S_learning ->
           [body |-> S_learning, assigned_agent |-> Missing,
            processing_time |-> Some(D_4_1s)]
      [] agent_name = S_analytics ->
           [body |-> S_analytics, assigned_agent |-> Missing,
            processing_time |-> Some(D_0_8s)]
      [] OTHER ->
           [body |-> <<>>, assigned_agent |-> Missing,
            processing_time |-> Some(D_1_0s)]

\* the if/elif chain of step 2: the agent that is called for assigned_agent
RoutedAgent(assigned_agent) ==
    IF assigned_agent = S_knowledge THEN S_knowledge
    ELSE IF assigned_agent = S_automation THEN S_automation
    ELSE IF assigned_agent = S_escalation THEN S_escalation
    ELSE IF assigned_agent = S_learning THEN S_learning
    ELSE IF assigned_agent = S_analytics THEN S_analytics
    ELSE S_escalation

\* the processing_log dictionary built on entry
NewLog(tk) ==
    [ticket_id  |-> tk.id,
     start_time |-> TRUE,
     steps      |-> <<>>,
     total_time |-> [kind |-> "int", s |-> <<"0">>],
     status     |-> "processing",
     error      |-> <<>>,
     end_time   |-> FALSE]

EmptyLog == [NewLog(NoTicket) EXCEPT !.start_time = FALSE]

RECURSIVE SumDurations(_)
\* sum([float(step["duration"].replace("s", "")) for step in steps])
SumDurations(steps) ==
    IF Len(steps) = 0 THEN 0
    ELSE DurationSeconds(steps[Len(steps)].duration)
           + SumDurations(SubSeq(steps, 1, Len(steps) - 1))

InitCoord ==
    /\ pc = [t \in Tasks |-> "idle"]
    /\ ticket = [t \in Tasks |-> NoTicket]
    /\ processing_log = [t \in Tasks |-> EmptyLog]
    /\ exc = [t \in Tasks |-> ""]
    /\ invoked = [t \in Tasks |-> <<>>]
    /\ cancelled = [t \in Tasks |-> FALSE]

\* a coordinator that keeps one processing_log for all its invocations
log_of_Shared(t) == 1

\* line 101: processing_log is a local variable, each invocation builds and
\* fills a dictionary of its own
log_of(t) == t

\* lines 99-107: entry, the log is created
CoordStart(t, tk) ==
    /\ pc[t] = "idle"
    /\ ticket' = [ticket EXCEPT ![t] = tk]
    /\ processing_log' = [processing_log EXCEPT ![log_of(t)] = NewLog(tk)]
    /\ pc' = [pc EXCEPT ![t] = "triage"]
    /\ UNCHANGED <<exc, invoked>>
    /\ UNCHANGED cancelled
    /\ UNCHANGED <<triageVars, knowledgeVars, busVars, learningVars>>

\* the exception leaves the try block: control goes to line 164
Raise(t, msg) ==
    /\ exc' = [exc EXCEPT ![t] = msg]
    /\ pc' = [pc EXCEPT ![t] = "except"]

\* lines 110-116: step 1
CoordTriage(t, out) ==
    /\ pc[t] = "triage"
    /\ invoked' = [invoked EXCEPT ![t] =
                      Append(@, [agent |-> S_triage, raised |-> out.raises])]
    /\ IF out.raises
       THEN /\ Raise(t, out.msg)
            /\ UNCHANGED processing_log
       ELSE /\ processing_log' = [processing_log EXCEPT ![log_of(t)].steps =
                   Append(@, [agent    |-> S_triage,
                              duration |-> D_2_3s,
                              result   |-> process_with_agent(S_triage, ticket[t])])]
            /\ pc' = [pc EXCEPT ![t] = "route"]
            /\ UNCHANGED exc
    /\ UNCHANGED ticket
    /\ UNCHANGED cancelled
    /\ UNCHANGED <<triageVars, knowledgeVars, busVars, learningVars>>

\* lines 118-138: step 2; triage_result is the local variable of line 111,
\* the answer of the triage call for this ticket
CoordRoute(t, out) ==
    /\ pc[t] = "route"
    /\ LET triage_result == process_with_agent(S_triage, ticket[t])
           entry == Get(triage_result.assigned_agent, S_escalation)
       IN IF entry.kind # "str"
          THEN \* None.lower() raises AttributeError
               /\ Raise(t, AttributeErrorMsg)
               /\ UNCHANGED <<processing_log, invoked>>
          ELSE LET assigned_agent == Lower(entry.s)
                   target == RoutedAgent(assigned_agent)
                   agent_result == process_with_agent(target, ticket[t])
               IN /\ invoked' = [invoked EXCEPT ![t] =
                         Append(@, [agent |-> target, raised |-> out.raises])]
                  /\ IF out.raises
                     THEN /\ Raise(t, out.msg)
                          /\ UNCHANGED processing_log
                     ELSE /\ processing_log' = [processing_log EXCEPT ![log_of(t)].steps =
                                Append(@, [agent    |-> assigned_agent,
                                           duration |-> Get(agent_result.processing_time,
                                                            D_60s).s,
                                           result   |-> agent_result])]
                          /\ pc' = [pc EXCEPT ![t] = "analytics"]
                          /\ UNCHANGED exc
    /\ UNCHANGED ticket
    /\ UNCHANGED cancelled
    /\ UNCHANGED <<triageVars, knowledgeVars, busVars, learningVars>>

\* lines 140-158: step 3 and the total
CoordAnalytics(t, out) ==
    /\ pc[t] = "analytics"
    /\ invoked' = [invoked EXCEPT ![t] =
                      Append(@, [agent |-> S_analytics, raised |-> out.raises])]
    /\ IF out.raises
       THEN /\ Raise(t, out.msg)
            /\ UNCHANGED processing_log
       ELSE LET steps == Append(processing_log[log_of(t)].steps,
                                [agent    |-> S_analytics,
                                 duration |-> D_0_5s,
                                 result   |-> process_with_agent(S_analytics, ticket[t])])
                total_seconds == SumDurations(steps)
            IN /\ processing_log' = [processing_log EXCEPT
                        ![log_of(t)].steps = steps,
                        ![log_of(t)].total_time = [kind |-> "str",
                                           s |-> FormatSeconds(total_seconds)]]
               /\ pc' = [pc EXCEPT ![t] = "completed"]
               /\ UNCHANGED exc
    /\ UNCHANGED ticket
    /\ UNCHANGED cancelled
    /\ UNCHANGED <<triageVars, knowledgeVars, busVars, learningVars>>

\* task.cancel() while the call of a step is awaited: CancelledError is
\* raised at the await of lines 111, 122-132 or 141. It derives from
\* BaseException since Python 3.8 and passes the except clause of line 164;
\* on Python 3.7 it derives from Exception and is handled there, str(e) = ""
CoordCancel(t, caught) ==
    /\ pc[t] \in {"triage", "route", "analytics"}
    /\ LET entry == IF pc[t] = "route"
                    THEN Get(process_with_agent(S_triage, ticket[t]).assigned_agent,
                             S_escalation)
                    ELSE Some(<<>>)
           agent == IF pc[t] = "triage" THEN S_triage
                    ELSE IF pc[t] = "analytics" THEN S_analytics
                    ELSE RoutedAgent(Lower(entry.s))
       IN /\ entry.kind = "str"
          /\ invoked' = [invoked EXCEPT ![t] =
                            Append(@, [agent |-> agent, raised |-> TRUE])]
    /\ cancelled' = [cancelled EXCEPT ![t] = TRUE]
    /\ IF caught
       THEN Raise(t, "")
       ELSE /\ pc' = [pc EXCEPT ![t] = "cancelled"]
            /\ UNCHANGED exc
    /\ UNCHANGED <<ticket, processing_log>>
    /\ UNCHANGED <<triageVars, knowledgeVars, busVars, learningVars>>

\* line 159
CoordSetCompleted(t) ==
    /\ pc[t] = "completed"
    /\ processing_log' = [processing_log EXCEPT ![log_of(t)].status = "completed"]
    /\ pc' = [pc EXCEPT ![t] = "end_time"]
    /\ UNCHANGED <<ticket, exc, invoked>>
    /\ UNCHANGED cancelled
    /\ UNCHANGED <<triageVars, knowledgeVars, busVars, learningVars>>

\* lines 160-162
CoordReturn(t) ==
    /\ pc[t] = "end_time"
    /\ processing_log' = [processing_log EXCEPT ![log_of(t)].end_time = TRUE]
    /\ pc' = [pc EXCEPT ![t] = "returned"]
    /\ UNCHANGED <<ticket, exc, invoked>>
    /\ UNCHANGED cancelled
    /\ UNCHANGED <<triageVars, knowledgeVars, busVars, learningVars>>

\* lines 164-165
CoordExceptStatus(t) ==
    /\ pc[t] = "except"
    /\ processing_log' = [processing_log EXCEPT ![log_of(t)].status = "failed"]
    /\ pc' = [pc EXCEPT ![t] = "error"]
    /\ UNCHANGED <<ticket, exc, invoked>>
    /\ UNCHANGED cancelled
    /\ UNCHANGED <<triageVars, knowledgeVars, busVars, learningVars>>

\* lines 166-168
CoordExceptReturn(t) ==
    /\ pc[t] = "error"
    /\ processing_log' = [processing_log EXCEPT ![log_of(t)].error = <<exc[t]>>]
    /\ pc' = [pc EXCEPT ![t] = "returned"]
    /\ UNCHANGED <<ticket, exc, invoked>>
    /\ UNCHANGED cancelled
    /\ UNCHANGED <<triageVars, knowledgeVars, busVars, learningVars>>

----------------------------------------------------------------------------
(* TriageAzureIntegration: classify_ticket and its fallback *)

KnowledgeWords ==
    << <<"h","o","w">>,
       <<"g","u","i","d","e">>,
       <<"d","o","c","u","m","e","n","t","a","t","i","o","n">>,
       <<"c","o","n","f","i","g","u","r","e">> >>

AutomationWords ==
    << <<"d","e","p","l","o","y">>,
       <<"a","u","t","o","m","a","t","i","o","n">>,
       <<"w","o","r","k","f","l","o","w">>,
       <<"p","i","p","e","l","i","n","e">> >>

EscalationWords ==
    << <<"s","e","c","u","r","i","t","y">>,
       <<"v","u","l","n","e","r","a","b","i","l","i","t","y">>,
       <<"c","r","i","t","i","c","a","l">>,
       <<"u","r","g","e","n","t">> >>

AnalyticsWords ==
    << <<"r","e","p","o","r","t">>,
       <<"a","n","a","l","y","t","i","c","s">>,
       <<"d","a","s","h","b","o","a","r","d">>,
       <<"m","e","t","r","i","c","s">> >>

S_30s == <<"3","0","s">>
S_45s == <<"4","5","s">>
S_60s == <<"6","0","s">>
S_90s == <<"9","0","s">>
S_120s == <<"1","2","0","s">>
D_1_2s == <<"1",".","2","s">>
S_General == <<"G","e","n","e","r","a","l">>
S_Medium == <<"M","e","d","i","u","m">>
S_High == <<"H","i","g","h">>
S_Unknown == <<"U","n","k","n","o","w","n">>
S_Network == <<"N","e","t","w","o","r","k">>
S_RuleReasoning == <<"F","a","l","l","b","a","c","k"," ","r","u","l","e","-","b","a","s","e","d"," ","c","l","a","s","s","i","f","i","c","a","t","i","o","n">>
S_ParseReasoning == <<"F","a","l","l","b","a","c","k"," ","c","l","a","s","s","i","f","i","c","a","t","i","o","n"," ","d","u","e"," ","t","o"," ","p","a","r","s","i","n","g"," ","e","r","r","o","r">>
S_BackendReasoning == <<"m","a","t","c","h","e","d"," ","b","y"," ","m","o","d","e","l">>

FallbackTag == "Fallback (Local Rules)"
PrimaryTag  == "Azure OpenAI <model>"

\* the dictionary of classification fields
Classification(agent, category, priority, confidence, resolution_time, reasoning) ==
    [agent |-> agent, category |-> category, priority |-> priority,
     confidence |-> confidence, resolution_time |-> resolution_time,
     reasoning |-> reasoning]

\* the keyword chain with the Analytics test moved before the Automation test
RuleChoice_AnalyticsFirst(text, last) ==
    IF AnyIn(KnowledgeWords, text)
    THEN [agent |-> S_Knowledge, resolution_time |-> S_30s]
    ELSE IF AnyIn(AnalyticsWords, text)
    THEN [agent |-> S_Analytics, resolution_time |-> S_45s]
    ELSE IF AnyIn(AutomationWords, text)
    THEN [agent |-> S_Automation, resolution_time |-> S_60s]
    ELSE IF AnyIn(EscalationWords, text)
    THEN [agent |-> S_Escalation, resolution_time |-> S_90s]
    ELSE last

\* lines 139-153: the keyword chain; last is the else branch
RuleChoice(text, last) ==
    IF AnyIn(KnowledgeWords, text)
    THEN [agent |-> S_Knowledge, resolution_time |-> S_30s]
    ELSE IF AnyIn(AutomationWords, text)
    THEN [agent |-> S_Automation, resolution_time |-> S_60s]
    ELSE IF AnyIn(EscalationWords, text)
    THEN [agent |-> S_Escalation, resolution_time |-> S_90s]
    ELSE IF AnyIn(AnalyticsWords, text)
    THEN [agent |-> S_Analytics, resolution_time |-> S_45s]
    ELSE last

\* the keyword chain without its else branch: agent stays unset
FallbackChoice_NoDefault(text) ==
    RuleChoice(text, [agent |-> <<>>, resolution_time |-> S_120s])

\* lines 139-153
FallbackChoice(text) ==
    RuleChoice(text, [agent |-> S_Escalation, resolution_time |-> S_120s])

\* lines 133-168
fallback_classification(tk) ==
    LET title_lower == Lower(tk.title)
        desc_lower  == Lower(tk.description)
        choice == FallbackChoice(title_lower \o desc_lower)
    IN [ticket_id |-> tk.id,
        classification |->
            Classification(Some(choice.agent),
                           Get(tk.category, S_General),
                           Get(tk.priority, S_Medium),
                           Num(85),
                           Some(choice.resolution_time),
                           Some(S_RuleReasoning)),
        confidence |-> Missing,
        assigned_agent |-> Some(choice.agent),
        priority |-> Missing,
        estimated_resolution_time |-> Missing,
        processing_time |-> Some(D_1_2s),
        azure_service |-> FallbackTag,
        token_usage |-> FALSE]

(* The text of a completion is a sequence of tokens: an opening brace, a   *)
(* closing brace, a run of other text, or one "key": value member of a     *)
(* JSON object.                                                            *)
LBrace == [t |-> "{", key |-> "", val |-> Missing]
RBrace == [t |-> "}", key |-> "", val |-> Missing]
Text   == [t |-> "text", key |-> "", val |-> Missing]
Member(key, val) == [t |-> "member", key |-> key, val |-> val]

\* response.find('{'): index from 0, -1 when absent
Find(content, tok) ==
    IF \E i \in 1..Len(content) : content[i] = tok
    THEN (CHOOSE i \in 1..Len(content) :
             content[i] = tok /\ \A j \in 1..(i - 1) : content[j] # tok) - 1
    ELSE -1

\* response.rfind('}'): index from 0, -1 when absent
RFind(content, tok) ==
    IF \E i \in 1..Len(content) : content[i] = tok
    THEN (CHOOSE i \in 1..Len(content) :
             content[i] = tok /\ \A j \in (i + 1)..Len(content) : content[j] # tok) - 1
    ELSE -1

\* json.loads accepts a span that is one object: braces around members only
IsJsonObject(span) ==
    /\ Len(span) >= 2
    /\ span[1] = LBrace
    /\ span[Len(span)] = RBrace
    /\ \A i \in 2..(Len(span) - 1) : span[i].t = "member"

\* the value json.loads gives a key: that of its last member, if any
JsonValue(span, key) ==
    IF \E i \in 1..Len(span) : span[i].t = "member" /\ span[i].key = key
    THEN span[CHOOSE i \in 1..Len(span) :
                 /\ span[i].t = "member" /\ span[i].key = key
                 /\ \A j \in (i + 1)..Len(span) :
                        ~(span[j].t = "member" /\ span[j].key = key)].val
    ELSE Missing

JsonLoads(span) ==
    Classification(JsonValue(span, "agent"), JsonValue(span, "category"),
                   JsonValue(span, "priority"), JsonValue(span, "confidence"),
                   JsonValue(span, "resolution_time"), JsonValue(span, "reasoning"))

\* lines 122-131: the dictionary returned when parsing raised
ParseErrorClassification ==
    Classification(Some(S_Escalation), Some(S_Unknown), Some(S_Medium),
                   Num(80), Some(S_120s), Some(S_ParseReasoning))

\* lines 111-131; content is the Opt message content (None has no find())
parse_classification_response(content) ==
    IF content.kind # "str" THEN ParseErrorClassification
    ELSE LET start == Find(content.s, LBrace)
             end   == RFind(content.s, RBrace) + 1
         IN IF start >= 0 /\ end > start
            THEN LET json_str == SubSeq(content.s, start + 1, end)
                 IN IF IsJsonObject(json_str) THEN JsonLoads(json_str)
                    ELSE ParseErrorClassification
            ELSE ParseErrorClassification

\* lines 84-109: the ticket fields the prompt embeds
build_classification_prompt(tk) ==
    [title |-> tk.title, description |-> tk.description,
     priority |-> Get(tk.priority, S_Medium)]

\* lines 61-78: the dictionary built from a backend response
PrimaryResult(tk, response) ==
    LET classification == parse_classification_response(response.content)
    IN [ticket_id |-> tk.id,
        classification |-> classification,
        confidence |-> IF classification.confidence.kind = "missing"
                       THEN Num(95) ELSE classification.confidence,
        assigned_agent |-> Get(classification.agent, S_Escalation),
        priority |-> Get(classification.priority, Get(tk.priority, S_Medium).s),
        estimated_resolution_time |-> Get(classification.resolution_time, S_120s),
        processing_time |-> Some(FormatSeconds(response.elapsed)),
        azure_service |-> PrimaryTag,
        token_usage |-> TRUE]

\* classify_ticket calling the backend a second time after it raised
classify_events_Retry(client, backend) ==
    IF client = "None" THEN <<"attempt", "fallback">>
    ELSE IF backend.kind = "raise"
    THEN <<"attempt", "request", "attempt", "request", "fallback">>
    ELSE <<"attempt", "request">>

\* lines 43-82, the order of the call statement (line 48), the request it
\* sends unless the client is None, and the except branch
classify_events(client, backend) ==
    IF client = "None" THEN <<"attempt", "fallback">>
    ELSE IF backend.kind = "raise" THEN <<"attempt", "request", "fallback">>
    ELSE <<"attempt", "request">>

\* lines 41-82: client is self.openai_client, backend what the create call does
classify_ticket(tk, client, backend) ==
    IF client = "None" \/ backend.kind = "raise"
    THEN fallback_classification(tk)
    ELSE PrimaryResult(tk, backend)

\* ticket texts: the scenarios of the classification rules, a keyword that
\* only the concatenation of title and description contains, and no keyword
T_HowConfigure ==
    <<"H","o","w"," ","d","o"," ","I"," ","c","o","n","f","i","g","u",
      "r","e"," ","S","S","L","?">>
T_Outage ==
    <<"P","r","o","d","u","c","t","i","o","n"," ","o","u","t","a","g",
      "e">>
T_Sho ==
    <<"S","h","o">>
T_Report ==
    <<"M","o","n","t","h","l","y"," ","R","E","P","O","R","T">>
T_Printer ==
    <<"P","r","i","n","t","e","r"," ","j","a","m">>
X_NeedDocs ==
    <<"n","e","e","d"," ","d","o","c","u","m","e","n","t","a","t","i",
      "o","n"," ","f","o","r"," ","c","e","r","t","i","f","i","c","a",
      "t","e"," ","s","e","t","u","p">>
X_Critical ==
    <<"c","r","i","t","i","c","a","l"," ","s","e","c","u","r","i","t",
      "y"," ","v","u","l","n","e","r","a","b","i","l","i","t","y",",",
      " ","u","r","g","e","n","t">>
X_w ==
    <<"w">>
X_Deploy ==
    <<"D","e","p","l","o","y"," ","t","h","e"," ","m","e","t","r","i",
      "c","s"," ","d","a","s","h","b","o","a","r","d">>

Titles == {T_HowConfigure, T_Outage, T_Sho, T_Report, T_Printer}

Descriptions == {X_NeedDocs, X_Critical, X_w, X_Deploy, <<>>}

TriageTickets ==
    [id : {"TKT-001"}, title : Titles, description : Descriptions,
     priority : {Missing, Some(S_High)}, category : {Missing, Some(S_Network)}]

NoTriageTicket ==
    [id |-> "", title |-> <<>>, description |-> <<>>,
     priority |-> Missing, category |-> Missing]

\* completion texts the backend may answer with
Contents ==
    { Some(<<LBrace, Member("agent", Some(S_Knowledge)), Member("confidence", Num(90)),
             Member("priority", Some(S_High)), Member("resolution_time", Some(S_30s)),
             Member("reasoning", Some(S_BackendReasoning)), RBrace>>),
      Some(<<Text, LBrace, Member("agent", Some(S_Automation)), RBrace, Text>>),
      Some(<<LBrace, Member("agent", Some(S_Billing)), RBrace>>),
      Some(<<LBrace, Member("agent", None), RBrace>>),
      Some(<<LBrace, RBrace>>),
      Some(<<LBrace, Member("agent", Some(S_Learning)), RBrace, Text,
             LBrace, Member("agent", Some(S_Analytics)), RBrace>>),
      Some(<<LBrace, Text, RBrace>>),
      Some(<<RBrace, Text, LBrace>>),
      Some(<<LBrace, Member("agent", Some(S_Knowledge))>>),
      Some(<<Text>>),
      Some(<<>>),
      None }

\* time.time() - start_time, in hundredths of a second
ElapsedValues == {47, 120}

Backends ==
    {[kind |-> "raise", content |-> None, elapsed |-> 0]}
      \cup [kind : {"response"}, content : Contents, elapsed : ElapsedValues]

\* no request reached the backend
NotCalled == [kind |-> "not called", content |-> None, elapsed |-> 0]

InitTriage ==
    /\ openai_client = "None"
    /\ tr_ticket = NoTriageTicket
    /\ tr_backend = NotCalled
    /\ tr_requests = 0
    /\ tr_result = fallback_classification(NoTriageTicket)
    /\ tr_pc = "idle"
    /\ tr_events = <<>>

\* lines 24-39: the client is set unless its construction raised
TriageInitialize ==
    /\ tr_pc = "idle"
    /\ \E ok \in BOOLEAN :
          openai_client' = IF ok THEN "client" ELSE openai_client
    /\ UNCHANGED <<tr_ticket, tr_backend, tr_requests, tr_result, tr_pc, tr_events>>
    /\ UNCHANGED <<coordVars, knowledgeVars, busVars, learningVars>>

\* lines 41-82: one call of classify_ticket
ClassifyTicket(tk, backend) ==
    /\ tr_pc = "idle"
    /\ tr_ticket' = tk
    /\ tr_backend' = IF openai_client = "None" THEN NotCalled ELSE backend
    /\ tr_requests' = IF openai_client = "None" THEN 0 ELSE 1
    /\ tr_result' = classify_ticket(tk, openai_client, backend)
    /\ tr_events' = classify_events(openai_client, backend)
    /\ tr_pc' = "returned"
    /\ UNCHANGED openai_client
    /\ UNCHANGED <<coordVars, knowledgeVars, busVars, learningVars>>

\* lines 188-201: the caller is done with the result and takes the next ticket
TriageNextTicket ==
    /\ tr_pc = "returned"
    /\ tr_ticket' = NoTriageTicket
    /\ tr_backend' = NotCalled
    /\ tr_requests' = 0
    /\ tr_result' = fallback_classification(NoTriageTicket)
    /\ tr_pc' = "idle"
    /\ tr_events' = <<>>
    /\ UNCHANGED openai_client
    /\ UNCHANGED <<coordVars, knowledgeVars, busVars, learningVars>>

----------------------------------------------------------------------------
(* KnowledgeAzureIntegration: search_knowledge and its fallback *)

\* lines 111-115
technical_terms ==
    << <<"s","s","l">>,
       <<"h","t","t","p","s">>,
       <<"c","e","r","t","i","f","i","c","a","t","e">>,
       <<"d","e","p","l","o","y","m","e","n","t">>,
       <<"c","o","n","f","i","g","u","r","a","t","i","o","n">>,
       <<"d","a","t","a","b","a","s","e">>,
       <<"a","p","i">>,
       <<"a","u","t","h","e","n","t","i","c","a","t","i","o","n">>,
       <<"c","a","c","h","i","n","g">>,
       <<"r","e","d","i","s">>,
       <<"p","e","r","f","o","r","m","a","n","c","e">>,
       <<"t","i","m","e","o","u","t">>,
       <<"e","r","r","o","r">>,
       <<"s","e","c","u","r","i","t","y">>,
       <<"v","u","l","n","e","r","a","b","i","l","i","t","y">> >>

K_ssl ==
    <<"s","s","l">>
K_deployment ==
    <<"d","e","p","l","o","y","m","e","n","t">>
K_database ==
    <<"d","a","t","a","b","a","s","e">>
A_SslTitle ==
    <<"S","S","L"," ","C","e","r","t","i","f","i","c","a","t","e"," ",
      "C","o","n","f","i","g","u","r","a","t","i","o","n"," ","G","u",
      "i","d","e">>
A_SslContent ==
    <<"S","t","e","p","-","b","y","-","s","t","e","p"," ","g","u","i",
      "d","e"," ","f","o","r"," ","c","o","n","f","i","g","u","r","i",
      "n","g"," ","S","S","L"," ","c","e","r","t","i","f","i","c","a",
      "t","e","s"," ","w","i","t","h"," ","A","z","u","r","e"," ","K",
      "e","y"," ","V","a","u","l","t"," ","i","n","t","e","g","r","a",
      "t","i","o","n",".",".",".">>
A_DeployTitle ==
    <<"D","e","p","l","o","y","m","e","n","t"," ","T","r","o","u","b",
      "l","e","s","h","o","o","t","i","n","g"," ","G","u","i","d","e">>
A_DeployContent ==
    <<"C","o","m","m","o","n"," ","d","e","p","l","o","y","m","e","n",
      "t"," ","i","s","s","u","e","s"," ","a","n","d"," ","s","o","l",
      "u","t","i","o","n","s"," ","f","o","r"," ","A","z","u","r","e",
      " ","C","o","n","t","a","i","n","e","r"," ","A","p","p","s",".",
      ".",".">>
A_DbTitle ==
    <<"D","a","t","a","b","a","s","e"," ","P","e","r","f","o","r","m",
      "a","n","c","e"," ","O","p","t","i","m","i","z","a","t","i","o",
      "n">>
A_DbContent ==
    <<"B","e","s","t"," ","p","r","a","c","t","i","c","e","s"," ","f",
      "o","r"," ","o","p","t","i","m","i","z","i","n","g"," ","d","a",
      "t","a","b","a","s","e"," ","c","o","n","n","e","c","t","i","o",
      "n","s"," ","a","n","d"," ","q","u","e","r","y"," ","p","e","r",
      "f","o","r","m","a","n","c","e",".",".",".">>
A_GeneralTitle ==
    <<"G","e","n","e","r","a","l"," ","S","u","p","p","o","r","t"," ",
      "G","u","i","d","e">>
A_GeneralContent ==
    <<"G","e","n","e","r","a","l"," ","t","r","o","u","b","l","e","s",
      "h","o","o","t","i","n","g"," ","s","t","e","p","s"," ","a","n",
      "d"," ","s","u","p","p","o","r","t"," ","r","e","s","o","u","r",
      "c","e","s",".",".",".">>
S_Security ==
    <<"S","e","c","u","r","i","t","y">>
S_Technical ==
    <<"T","e","c","h","n","i","c","a","l">>
S_Performance ==
    <<"P","e","r","f","o","r","m","a","n","c","e">>
S_kb1 ==
    <<"k","b","-","0","0","1">>
S_kb2 ==
    <<"k","b","-","0","0","2">>
S_kb3 ==
    <<"k","b","-","0","0","3">>
B_Title1 ==
    <<"R","e","n","e","w","i","n","g"," ","a"," ","c","e","r","t","i",
      "f","i","c","a","t","e">>
B_Title2 ==
    <<"T","u","n","i","n","g"," ","t","h","e"," ","d","a","t","a","b",
      "a","s","e">>
B_Content ==
    <<".",".",".">>
T_SslSetup ==
    <<"S","S","L"," ","s","e","t","u","p"," ","f","a","i","l","s">>
T_DbDeploy ==
    <<"D","a","t","a","b","a","s","e"," ","D","E","P","L","O","Y","M",
      "E","N","T">>
X_ManyTerms ==
    <<"R","e","d","i","s"," ","c","a","c","h","i","n","g"," ","e","r",
      "r","o","r",":"," ","A","P","I"," ","t","i","m","e","o","u","t",
      ","," ","H","T","T","P","S"," ","c","e","r","t","i","f","i","c",
      "a","t","e"," ","a","n","d"," ","d","a","t","a","b","a","s","e",
      " ","s","e","c","u","r","i","t","y">>

KnowledgeFallbackTag == "Fallback (Local)"
KnowledgePrimaryTag  == "AI Search Semantic"

\* top=5 of the search request, and the [:5] of _extract_key_terms
MaxKeyTerms == 5

Min(a, b) == IF a < b THEN a ELSE b

\* _extract_key_terms without the limit on the number of terms
extract_key_terms_NoLimit(text) ==
    SelectSeq(technical_terms, LAMBDA term : Contains(Lower(text), term))

\* lines 108-119
extract_key_terms(text) ==
    LET text_lower  == Lower(text)
        found_terms == SelectSeq(technical_terms, LAMBDA term : Contains(text_lower, term))
    IN SubSeq(found_terms, 1, Min(MaxKeyTerms, Len(found_terms)))

RECURSIVE Join(_)
\* " ".join(parts)
Join(parts) ==
    IF Len(parts) = 0 THEN <<>>
    ELSE IF Len(parts) = 1 THEN parts[1]
    ELSE parts[1] \o <<" ">> \o Join(Tail(parts))

\* lines 96-106
build_search_query(tk) ==
    LET query_parts == <<tk.title>> \o extract_key_terms(tk.description)
    IN Join(query_parts)

\* one entry of knowledge_items or of mock_knowledge
Item(id, title, content, category, relevance_score) ==
    [id |-> id, title |-> title, content |-> content, category |-> category,
     relevance_score |-> relevance_score]

\* lines 124-140, in dictionary order
mock_knowledge ==
    << [key |-> K_ssl,
        knowledge |-> Item(Missing, Some(A_SslTitle), Some(A_SslContent),
                           Some(S_Security), Missing)],
       [key |-> K_deployment,
        knowledge |-> Item(Missing, Some(A_DeployTitle), Some(A_DeployContent),
                           Some(S_Technical), Missing)],
       [key |-> K_database,
        knowledge |-> Item(Missing, Some(A_DbTitle), Some(A_DbContent),
                           Some(S_Performance), Missing)] >>

GeneralArticle ==
    Item(Missing, Some(A_GeneralTitle), Some(A_GeneralContent), Some(S_General), Missing)

\* _fallback_search without the break: the last matching key decides
fallback_search_LastKey(tk) ==
    LET text == Lower(tk.title) \o Lower(tk.description)
        hits == SelectSeq(mock_knowledge, LAMBDA e : Contains(text, e.key))
        best_match == IF Len(hits) > 0 THEN hits[Len(hits)].knowledge ELSE GeneralArticle
    IN [ticket_id |-> tk.id,
        search_query |-> tk.title,
        results_found |-> 1,
        best_match |-> <<best_match>>,
        has_all_results |-> FALSE,
        all_results |-> <<>>,
        relevance_score |-> Num(85),
        processing_time |-> Some(D_0_8s),
        azure_service |-> KnowledgeFallbackTag]

\* lines 121-167
fallback_search(tk) ==
    LET text == Lower(tk.title) \o Lower(tk.description)
        hits == SelectSeq(mock_knowledge, LAMBDA e : Contains(text, e.key))
        best_match == IF Len(hits) > 0 THEN hits[1].knowledge ELSE GeneralArticle
    IN [ticket_id |-> tk.id,
        search_query |-> tk.title,
        results_found |-> 1,
        best_match |-> <<best_match>>,
        has_all_results |-> FALSE,
        all_results |-> <<>>,
        relevance_score |-> Num(85),
        processing_time |-> Some(D_0_8s),
        azure_service |-> KnowledgeFallbackTag]

\* result.get(key): None for an absent key
GetOrNone(entry) == IF entry.kind = "missing" THEN None ELSE entry

\* lines 70-76: one backend document as a knowledge item
KnowledgeItem(result) ==
    Item(GetOrNone(result.id), GetOrNone(result.title), GetOrNone(result.content),
         GetOrNone(result.category),
         IF result.score.kind = "missing" THEN Num(0) ELSE result.score)

\* the loop skipping the documents that carry no "@search.score"
ReadResults_DropUnscored(backend) ==
    LET n == IF backend.fail_at > 0 THEN backend.fail_at - 1 ELSE Len(backend.docs)
        kept == SelectSeq(SubSeq(backend.docs, 1, n),
                          LAMBDA d : d.score.kind # "missing")
    IN [knowledge_items |-> [i \in 1..Len(kept) |-> KnowledgeItem(kept[i])],
        raised |-> backend.fail_at > 0]

\* the loop ending quietly where fetching a document raises
ReadResults_SwallowsRaise(backend) ==
    LET n == IF backend.fail_at > 0 THEN backend.fail_at - 1 ELSE Len(backend.docs)
    IN [knowledge_items |-> [i \in 1..n |-> KnowledgeItem(backend.docs[i])],
        raised |-> FALSE]

\* lines 68-76: the loop over the lazy results; fail_at = k > 0 means that
\* fetching the k-th document raises
ReadResults(backend) ==
    LET n == IF backend.fail_at > 0 THEN backend.fail_at - 1 ELSE Len(backend.docs)
    IN [knowledge_items |-> [i \in 1..n |-> KnowledgeItem(backend.docs[i])],
        raised |-> backend.fail_at > 0]

\* lines 78-90: the dictionary built from the items read
PrimarySearchResult(tk, query, knowledge_items) ==
    LET best_match == IF Len(knowledge_items) > 0 THEN <<knowledge_items[1]>> ELSE <<>>
    IN [ticket_id |-> tk.id,
        search_query |-> query,
        results_found |-> Len(knowledge_items),
        best_match |-> best_match,
        has_all_results |-> TRUE,
        all_results |-> knowledge_items,
        relevance_score |-> IF Len(best_match) > 0
                            THEN best_match[1].relevance_score ELSE Num(0),
        processing_time |-> Some(D_1_8s),
        azure_service |-> KnowledgePrimaryTag]

\* lines 53-94, the order of the search statement (line 58), the request it
\* sends unless the client is None, and the except branch
search_events(client, backend) ==
    IF client = "None" THEN <<"attempt", "fallback">>
    ELSE IF backend.kind = "raise" \/ backend.fail_at > 0
    THEN <<"attempt", "request", "fallback">>
    ELSE <<"attempt", "request">>

\* search_knowledge treating an empty result list as a failed lookup
search_knowledge_FallbackOnEmpty(tk, client, backend) ==
    IF client = "None" \/ backend.kind = "raise"
    THEN fallback_search(tk)
    ELSE LET read == ReadResults(backend)
         IN IF read.raised \/ Len(read.knowledge_items) = 0
            THEN fallback_search(tk)
            ELSE PrimarySearchResult(tk, build_search_query(tk), read.knowledge_items)

\* search_knowledge keeping the items read before the results raised
search_knowledge_PartialOnRaise(tk, client, backend) ==
    IF client = "None" \/ backend.kind = "raise"
    THEN fallback_search(tk)
    ELSE PrimarySearchResult(tk, build_search_query(tk),
                             ReadResults(backend).knowledge_items)

\* lines 52-94: client is self.search_client, backend what the search does
search_knowledge(tk, client, backend) ==
    IF client = "None" \/ backend.kind = "raise"
    THEN fallback_search(tk)
    ELSE LET query == build_search_query(tk)
             read  == ReadResults(backend)
         IN IF read.raised
            THEN fallback_search(tk)
            ELSE PrimarySearchResult(tk, query, read.knowledge_items)

KnowledgeTickets ==
    [id : {"TKT-001"},
     title : {T_SslSetup, T_DbDeploy, T_Printer},
     description : {X_NeedDocs, X_ManyTerms, X_w, <<>>}]

NoKnowledgeTicket == [id |-> "", title |-> <<>>, description |-> <<>>]

\* documents the search backend may return, with their "@search.score"
Docs ==
    { [id |-> Some(S_kb1), title |-> Some(B_Title1), content |-> Some(B_Content),
       category |-> Some(S_Security), score |-> Num(92)],
      [id |-> Some(S_kb2), title |-> Some(B_Title2), content |-> Some(B_Content),
       category |-> Some(S_Performance), score |-> Num(40)],
      [id |-> Some(S_kb3), title |-> Missing, content |-> Some(B_Content),
       category |-> None, score |-> Missing] }

\* longest result sequence the backend returns in the model
MaxResults == 2

DocSeqs == UNION {[1..n -> Docs] : n \in 0..MaxResults}

SearchBackends ==
    {[kind |-> "raise", docs |-> <<>>, fail_at |-> 0]}
      \cup {[kind |-> "results", docs |-> d, fail_at |-> k] :
               d \in DocSeqs, k \in 0..(MaxResults + 1)}

SearchNotCalled == [kind |-> "not called", docs |-> <<>>, fail_at |-> 0]

InitKnowledge ==
    /\ search_client = "None"
    /\ kn_ticket = NoKnowledgeTicket
    /\ kn_backend = SearchNotCalled
    /\ kn_requests = 0
    /\ kn_result = fallback_search(NoKnowledgeTicket)
    /\ kn_pc = "idle"
    /\ kn_events = <<>>

\* lines 27-50: the client is set unless the key lookup or construction raised
KnowledgeInitialize ==
    /\ kn_pc = "idle"
    /\ \E ok \in BOOLEAN :
          search_client' = IF ok THEN "client" ELSE search_client
    /\ UNCHANGED <<kn_ticket, kn_backend, kn_requests, kn_result, kn_pc, kn_events>>
    /\ UNCHANGED <<coordVars, triageVars, busVars, learningVars>>

\* lines 52-94: one call of search_knowledge
SearchKnowledge(tk, backend) ==
    /\ kn_pc = "idle"
    /\ backend.fail_at <= Len(backend.docs) + 1
    /\ kn_ticket' = tk
    /\ kn_backend' = IF search_client = "None" THEN SearchNotCalled ELSE backend
    /\ kn_requests' = IF search_client = "None" THEN 0 ELSE 1
    /\ kn_result' = search_knowledge(tk, search_client, backend)
    /\ kn_events' = search_events(search_client, backend)
    /\ kn_pc' = "returned"
    /\ UNCHANGED search_client
    /\ UNCHANGED <<coordVars, triageVars, busVars, learningVars>>

\* lines 185-193: the caller is done with the result and takes the next ticket
KnowledgeNextTicket ==
    /\ kn_pc = "returned"
    /\ kn_ticket' = NoKnowledgeTicket
    /\ kn_backend' = SearchNotCalled
    /\ kn_requests' = 0
    /\ kn_result' = fallback_search(NoKnowledgeTicket)
    /\ kn_pc' = "idle"
    /\ kn_events' = <<>>
    /\ UNCHANGED search_client
    /\ UNCHANGED <<coordVars, triageVars, busVars, learningVars>>

----------------------------------------------------------------------------
(* ServiceBusCoordinator.receive_messages and the queue it reads *)

\* messages of one queue; str(message) of "m1" is a JSON text, of "m2" not
Messages == {"m1", "m2"}

BodyIsJson == [m \in Messages |-> m = "m1"]

\* max_delivery_count of the queues the setup script creates
max_delivery_count == 10

\* the loop body completing the message before the handler has run
process_message_CompleteFirst(body_is_json, handler_ok, complete_ok, abandon_ok) ==
    LET completed      == body_is_json /\ complete_ok
        handler_raised == completed /\ ~handler_ok
        abandon_called == ~completed \/ handler_raised
    IN [processed       |-> TRUE,
        handler_called  |-> completed,
        handler_raised  |-> handler_raised,
        complete_called |-> body_is_json,
        completed       |-> completed,
        abandon_called  |-> abandon_called,
        abandoned       |-> ~completed /\ abandon_ok,
        loop_ends       |-> abandon_called /\ ~abandon_ok]

\* lines 81-93, the loop body for one message: what parsing, the handler,
\* complete_message and abandon_message do, given which of them raise
process_message(body_is_json, handler_ok, complete_ok, abandon_ok) ==
    LET handler_called  == body_is_json
        handler_raised  == handler_called /\ ~handler_ok
        complete_called == handler_called /\ handler_ok
        completed       == complete_called /\ complete_ok
        abandon_called  == ~completed
        abandoned       == abandon_called /\ abandon_ok
    IN [processed       |-> TRUE,
        handler_called  |-> handler_called,
        handler_raised  |-> handler_raised,
        complete_called |-> complete_called,
        completed       |-> completed,
        abandon_called  |-> abandon_called,
        abandoned       |-> abandoned,
        loop_ends       |-> abandon_called /\ ~abandoned]

\* a delivery the loop body has not worked on yet
NotProcessed ==
    [processed |-> FALSE, handler_called |-> FALSE, handler_raised |-> FALSE,
     complete_called |-> FALSE, completed |-> FALSE, abandon_called |-> FALSE,
     abandoned |-> FALSE, loop_ends |-> FALSE]

\* a queue that hands every released message out again
BrokerRelease_NoDeadLetter(m) == "active"

\* the queue takes back a message that was abandoned or whose lock ran out:
\* it is delivered again unless max_delivery_count deliveries were made, then
\* it is moved to the dead-letter queue
BrokerRelease(m) ==
    IF deliveries[m] >= max_delivery_count THEN "dead" ELSE "active"

InitBus ==
    /\ msg_state = [m \in Messages |-> "absent"]
    /\ deliveries = [m \in Messages |-> 0]
    /\ last_delivery = [m \in Messages |-> NotProcessed]
    /\ all_failed = [m \in Messages |-> TRUE]
    /\ rx_pc = "idle"
    /\ rx_msg = "none"
    /\ servicebus_client = "None"
    /\ rx_live = FALSE
    /\ tx_pc = "idle"
    /\ tx_live = FALSE
    /\ tx_result = "none"

\* lines 29-48: the client is created unless the key lookup or the
\* construction raised
BusInitialize(ok) ==
    /\ servicebus_client = "None"
    /\ rx_pc = "idle"
    /\ tx_pc = "idle"
    /\ servicebus_client' = IF ok THEN "open" ELSE "None"
    /\ UNCHANGED <<queueVars, rx_pc, rx_msg, rx_live, tx_pc, tx_live, tx_result>>
    /\ UNCHANGED <<coordVars, triageVars, knowledgeVars, learningVars>>

\* leaving `async with self.servicebus_client` (lines 53 and 78) closes the
\* client, which shuts down every sender and receiver made from it
ClientAfterExit == IF servicebus_client = "None" THEN "None" ELSE "closed"

\* a sender's message reaches the queue
BrokerArrive(m) ==
    /\ msg_state[m] = "absent"
    /\ msg_state' = [msg_state EXCEPT ![m] = "active"]
    /\ UNCHANGED <<deliveries, last_delivery, all_failed>>
    /\ UNCHANGED <<rx_pc, rx_msg, servicebus_client, rx_live, tx_pc, tx_live, tx_result>>
    /\ UNCHANGED <<coordVars, triageVars, knowledgeVars, learningVars>>

\* lines 52-55: the client and a sender are entered; with no client, or
\* when opening raises, the call goes to line 71 and returns False
SendStart(ok) ==
    /\ tx_pc = "idle"
    /\ servicebus_client = "None" => ~ok
    /\ IF ok
       THEN /\ tx_pc' = "sending"
            /\ tx_live' = TRUE
            /\ servicebus_client' = "open"
            /\ UNCHANGED <<tx_result, rx_live>>
       ELSE /\ tx_pc' = "returned"
            /\ tx_result' = "False"
            /\ servicebus_client' = ClientAfterExit
            /\ rx_live' = (rx_live /\ servicebus_client = "None")
            /\ UNCHANGED tx_live
    /\ UNCHANGED <<queueVars, rx_pc, rx_msg>>
    /\ UNCHANGED <<coordVars, triageVars, knowledgeVars, learningVars>>

\* lines 56-73: the message is sent and both contexts are left; a raising
\* send_messages, also on a sender that was shut down, gives False
SendFinish(sent_ok) ==
    /\ tx_pc = "sending"
    /\ tx_pc' = "returned"
    /\ tx_result' = IF sent_ok /\ tx_live THEN "True" ELSE "False"
    /\ tx_live' = FALSE
    /\ servicebus_client' = ClientAfterExit
    /\ rx_live' = FALSE
    /\ UNCHANGED <<queueVars, rx_pc, rx_msg>>
    /\ UNCHANGED <<coordVars, triageVars, knowledgeVars, learningVars>>

\* the caller has the result and may send again
SendReturn ==
    /\ tx_pc = "returned"
    /\ tx_pc' = "idle"
    /\ tx_result' = "none"
    /\ UNCHANGED <<queueVars, rx_pc, rx_msg, servicebus_client, rx_live, tx_live>>
    /\ UNCHANGED <<coordVars, triageVars, knowledgeVars, learningVars>>

\* lines 77-80: the client and the receiver are entered; with no client, or
\* when opening raises, the call ends at line 96
ReceiveStart(ok) ==
    /\ rx_pc = "idle"
    /\ servicebus_client = "None" => ~ok
    /\ IF ok
       THEN /\ rx_pc' = "receiving"
            /\ rx_live' = TRUE
            /\ servicebus_client' = "open"
       ELSE /\ rx_pc' = "ended"
            /\ UNCHANGED <<rx_live, servicebus_client>>
    /\ UNCHANGED <<queueVars, rx_msg, tx_pc, tx_live, tx_result>>
    /\ UNCHANGED <<coordVars, triageVars, knowledgeVars, learningVars>>

\* line 81: the iteration yields the next message, which the queue locks
\* for this receiver, counting the delivery
ReceiveMessage(m) ==
    /\ rx_pc = "receiving"
    /\ rx_live
    /\ msg_state[m] = "active"
    /\ msg_state' = [msg_state EXCEPT ![m] = "locked"]
    /\ deliveries' = [deliveries EXCEPT ![m] = @ + 1]
    /\ last_delivery' = [last_delivery EXCEPT ![m] = NotProcessed]
    /\ rx_msg' = m
    /\ rx_pc' = "handling"
    /\ UNCHANGED all_failed
    /\ UNCHANGED <<servicebus_client, rx_live, tx_pc, tx_live, tx_result>>
    /\ UNCHANGED <<coordVars, triageVars, knowledgeVars, learningVars>>

\* line 81 on a receiver that was shut down: the iteration raises and the
\* call ends at line 96
ReceiveShutDown ==
    /\ rx_pc = "receiving"
    /\ ~rx_live
    /\ rx_pc' = "ended"
    /\ UNCHANGED <<queueVars, rx_msg, servicebus_client, rx_live, tx_pc, tx_live, tx_result>>
    /\ UNCHANGED <<coordVars, triageVars, knowledgeVars, learningVars>>

\* lines 82-93: the loop body for the message received; complete_message
\* and abandon_message raise on a receiver that was shut down
HandleMessage(handler_ok, complete_ok, abandon_ok) ==
    /\ rx_pc = "handling"
    /\ ~rx_live => (~complete_ok /\ ~abandon_ok)
    /\ LET m == rx_msg
           done == process_message(BodyIsJson[m], handler_ok, complete_ok, abandon_ok)
       IN /\ last_delivery' = [last_delivery EXCEPT ![m] = done]
          /\ all_failed' = [all_failed EXCEPT ![m] = @ /\ done.handler_raised]
          /\ msg_state' = [msg_state EXCEPT ![m] =
                IF done.completed THEN "completed"
                ELSE IF done.abandoned THEN BrokerRelease(m)
                ELSE "locked"]
          /\ rx_pc' = IF done.loop_ends THEN "ended" ELSE "receiving"
    /\ rx_msg' = "none"
    /\ UNCHANGED deliveries
    /\ UNCHANGED <<servicebus_client, rx_live, tx_pc, tx_live, tx_result>>
    /\ UNCHANGED <<coordVars, triageVars, knowledgeVars, learningVars>>

\* lock_duration of the queue: the lock of a message that was received and
\* neither completed nor abandoned runs out
LockExpire(m) ==
    /\ msg_state[m] = "locked"
    /\ rx_msg # m
    /\ msg_state' = [msg_state EXCEPT ![m] = BrokerRelease(m)]
    /\ UNCHANGED <<deliveries, last_delivery, all_failed>>
    /\ UNCHANGED <<rx_pc, rx_msg, servicebus_client, rx_live, tx_pc, tx_live, tx_result>>
    /\ UNCHANGED <<coordVars, triageVars, knowledgeVars, learningVars>>

\* lines 95-96: both contexts are left and the call returns; the caller
\* may call again
ReceiveReturn ==
    /\ rx_pc = "ended"
    /\ rx_pc' = "idle"
    /\ rx_live' = FALSE
    /\ servicebus_client' = ClientAfterExit
    /\ tx_live' = FALSE
    /\ UNCHANGED <<queueVars, rx_msg, tx_pc, tx_result>>
    /\ UNCHANGED <<coordVars, triageVars, knowledgeVars, learningVars>>

----------------------------------------------------------------------------
(* Learning agent: process_feedback and the metrics it keeps *)

\* submissions accepted before the model stops taking more
MaxFeedback == 3

\* values on the 1-5 scale of user_satisfaction
Satisfactions == {1, 3, 5}

\* the request bodies that pass validation as FeedbackRequest
FeedbackRequests ==
    [ticket_id : TicketIds, user_satisfaction : Satisfactions,
     resolution_successful : BOOLEAN, comments : {<<>>}]

S_FB == <<"F","B","-">>

R_quality == "Improve response quality and accuracy"
R_knowledge == "Enhance knowledge base with more solutions"
R_well == "System performing well, continue monitoring"

RECURSIVE SumSatisfaction(_)
\* sum(f["satisfaction"] for f in feedback_data)
SumSatisfaction(data) ==
    IF Len(data) = 0 THEN 0
    ELSE SumSatisfaction(SubSeq(data, 1, Len(data) - 1)) + data[Len(data)].satisfaction

\* round(total / n, 2), in hundredths; a tie goes to the even neighbour
RoundedAverage(total, n) ==
    LET q == (100 * total) \div n
        r == (100 * total) % n
    IN IF 2 * r > n THEN q + 1
       ELSE IF 2 * r < n THEN q
       ELSE IF q % 2 = 0 THEN q ELSE q + 1

\* lines 76-90, on a metrics dictionary whose average is in hundredths
generate_recommendations(metrics) ==
    LET quality == IF metrics.average_satisfaction < 300 THEN <<R_quality>> ELSE <<>>
        knowledge ==
            IF /\ metrics.total_tickets > 0
               /\ 10 * metrics.successful_resolutions < 8 * metrics.total_tickets
            THEN <<R_knowledge>> ELSE <<>>
        recommendations == quality \o knowledge
    IN IF Len(recommendations) = 0 THEN <<R_well>> ELSE recommendations

\* process_feedback that counts every submission as a successful resolution
process_feedback_CountsEvery(data, metrics, feedback) ==
    LET entry == [ticket_id |-> feedback.ticket_id,
                  satisfaction |-> feedback.user_satisfaction,
                  successful |-> feedback.resolution_successful,
                  comments |-> feedback.comments,
                  timestamp |-> TRUE]
        stored == Append(data, entry)
        updated == [total_tickets |-> metrics.total_tickets + 1,
                    successful_resolutions |-> metrics.successful_resolutions + 1,
                    average_satisfaction |->
                        RoundedAverage(SumSatisfaction(stored), Len(stored))]
    IN [feedback_data |-> stored,
        performance_metrics |-> updated,
        response |-> [feedback_id |-> S_FB \o IntToStr(Len(stored)),
                      processed |-> TRUE,
                      recommendations |-> generate_recommendations(updated),
                      timestamp |-> TRUE]]

\* lines 32-58: the new contents of the list and of the dictionary, and the
\* response; a timestamp is TRUE for "set"
process_feedback(data, metrics, feedback) ==
    LET entry == [ticket_id |-> feedback.ticket_id,
                  satisfaction |-> feedback.user_satisfaction,
                  successful |-> feedback.resolution_successful,
                  comments |-> feedback.comments,
                  timestamp |-> TRUE]
        stored == Append(data, entry)
        updated == [total_tickets |-> metrics.total_tickets + 1,
                    successful_resolutions |->
                        IF feedback.resolution_successful
                        THEN metrics.successful_resolutions + 1
                        ELSE metrics.successful_resolutions,
                    average_satisfaction |->
                        RoundedAverage(SumSatisfaction(stored), Len(stored))]
    IN [feedback_data |-> stored,
        performance_metrics |-> updated,
        response |-> [feedback_id |-> S_FB \o IntToStr(Len(stored)),
                      processed |-> TRUE,
                      recommendations |-> generate_recommendations(updated),
                      timestamp |-> TRUE]]

InitLearning ==
    /\ feedback_data = <<>>
    /\ performance_metrics = [total_tickets |-> 0,
                              successful_resolutions |-> 0,
                              average_satisfaction |-> 0]
    /\ fb_responses = <<>>

\* one POST /api/v1/feedback; the handler has no await, so it runs from its
\* first line to its return without another request in between
ProcessFeedback(feedback) ==
    /\ Len(feedback_data) < MaxFeedback
    /\ LET done == process_feedback(feedback_data, performance_metrics, feedback)
       IN /\ feedback_data' = done.feedback_data
          /\ performance_metrics' = done.performance_metrics
          /\ fb_responses' = Append(fb_responses, done.response)
    /\ UNCHANGED <<coordVars, triageVars, knowledgeVars, busVars>>

----------------------------------------------------------------------------
(* Specifications *)

vars == <<coordVars, triageVars, knowledgeVars, busVars, learningVars>>

Init == InitCoord /\ InitTriage /\ InitKnowledge /\ InitBus /\ InitLearning

\* concurrent invocations of coordinate_ticket_processing
Next ==
    \/ \E t \in Tasks, tk \in Tickets : CoordStart(t, tk)
    \/ \E t \in Tasks, out \in AgentOutcomes : CoordTriage(t, out)
    \/ \E t \in Tasks, out \in AgentOutcomes : CoordRoute(t, out)
    \/ \E t \in Tasks, out \in AgentOutcomes : CoordAnalytics(t, out)
    \/ \E t \in Tasks, caught \in BOOLEAN : CoordCancel(t, caught)
    \/ \E t \in Tasks : CoordSetCompleted(t)
    \/ \E t \in Tasks : CoordReturn(t)
    \/ \E t \in Tasks : CoordExceptStatus(t)
    \/ \E t \in Tasks : CoordExceptReturn(t)

Spec == Init /\ [][Next]_vars

\* calls of initialize and classify_ticket on one TriageAzureIntegration
NextTriage ==
    \/ TriageInitialize
    \/ \E tk \in TriageTickets, backend \in Backends : ClassifyTicket(tk, backend)
    \/ TriageNextTicket

SpecTriage == Init /\ [][NextTriage]_vars

\* calls of initialize and search_knowledge on one KnowledgeAzureIntegration
NextKnowledge ==
    \/ KnowledgeInitialize
    \/ \E tk \in KnowledgeTickets, backend \in SearchBackends : SearchKnowledge(tk, backend)
    \/ KnowledgeNextTicket

SpecKnowledge == Init /\ [][NextKnowledge]_vars

\* one caller of both integrations, making one call at a time
NextAgents ==
    \/ kn_pc = "idle" /\ TriageInitialize
    \/ kn_pc = "idle" /\ \E tk \in TriageTickets, backend \in Backends :
                             ClassifyTicket(tk, backend)
    \/ kn_pc = "idle" /\ TriageNextTicket
    \/ tr_pc = "idle" /\ KnowledgeInitialize
    \/ tr_pc = "idle" /\ \E tk \in KnowledgeTickets, backend \in SearchBackends :
                             SearchKnowledge(tk, backend)
    \/ tr_pc = "idle" /\ KnowledgeNextTicket

SpecAgents == Init /\ [][NextAgents]_vars

\* one receive_messages loop and one send_message call at a time on one
\* coordinator, and the queue the loop reads
NextBus ==
    \/ \E ok \in BOOLEAN : BusInitialize(ok)
    \/ \E m \in Messages : BrokerArrive(m)
    \/ \E ok \in BOOLEAN : SendStart(ok)
    \/ \E sent_ok \in BOOLEAN : SendFinish(sent_ok)
    \/ SendReturn
    \/ \E ok \in BOOLEAN : ReceiveStart(ok)
    \/ ReceiveShutDown
    \/ \E m \in Messages : ReceiveMessage(m)
    \/ \E handler_ok, complete_ok, abandon_ok \in BOOLEAN :
          HandleMessage(handler_ok, complete_ok, abandon_ok)
    \/ \E m \in Messages : LockExpire(m)
    \/ ReceiveReturn

SpecBus == Init /\ [][NextBus]_vars

\* feedback submissions to the learning agent
NextLearning == \E feedback \in FeedbackRequests : ProcessFeedback(feedback)

SpecLearning == Init /\ [][NextLearning]_vars

----------------------------------------------------------------------------
(* Properties of coordinate_ticket_processing *)

Returned(t) == pc[t] = "returned"

\* the number that total_time holds, in hundredths of a second
TotalSeconds(total_time) ==
    IF total_time.kind = "int" THEN 100 * ParseInt(total_time.s)
    ELSE DurationSeconds(total_time.s)

\* some call of _process_with_agent made by invocation t raised
SomeCallRaised(t) == \E i \in DOMAIN invoked[t] : invoked[t][i].raised

FiveAgents == {S_knowledge, S_automation, S_escalation, S_learning, S_analytics}

\* the agent the routing rule names for a value of assigned_agent:
\* a case-insensitive match with one of the five agents, escalation otherwise
ExpectedRoute(entry) ==
    IF entry.kind = "str" /\ \E a \in FiveAgents : Lower(entry.s) = a
    THEN CHOOSE a \in FiveAgents : Lower(entry.s) = a
    ELSE S_escalation

\* the marker of a step record with a failed outcome
S_failed == <<"f","a","i","l","e","d">>

\* C1: in every returned log (completed or failed) total_time equals the sum
\* of the durations of the step records the log contains.
CE_C1_TotalIsSumOfSteps ==
    \A t \in Tasks :
        Returned(t) =>
            TotalSeconds(processing_log[t].total_time)
                = SumDurations(processing_log[t].steps)

\* C2: every returned log holds exactly the records triage, routed agent,
\* analytics, in this order, whatever the outcome of any step.
CE_C2_StepsInExecutionOrder ==
    \A t \in Tasks :
        Returned(t) =>
            LET steps == processing_log[t].steps IN
            /\ Len(steps) = 3
            /\ steps[1].agent = S_triage
            /\ steps[2].result.body = ExpectedRoute(steps[1].result.assigned_agent)
            /\ steps[3].agent = S_analytics

\* C3: analytics always runs as the final step: when the routed agent's call
\* raises, analytics is still invoked afterwards and its record is appended.
CE_C3_AnalyticsAlwaysRuns ==
    \A t \in Tasks :
        (Returned(t) /\ Len(invoked[t]) >= 2) =>
            LET steps == processing_log[t].steps IN
            /\ Len(invoked[t]) = 3
            /\ invoked[t][3].agent = S_analytics
            /\ Len(steps) > 0
            /\ steps[Len(steps)].agent = S_analytics

\* C4: a raising agent call does not leave the step as an exception: a step
\* record for that agent with a failed outcome is appended, and no call is
\* repeated (at most the three calls of the pipeline are made).
CE_C4_FailureIsRecordedNotThrown ==
    \A t \in Tasks :
        \A i \in DOMAIN invoked[t] :
            invoked[t][i].raised =>
                LET steps == processing_log[t].steps IN
                /\ pc[t] \notin {"except", "error"}
                /\ Len(steps) >= i
                /\ steps[i].result.body = S_failed
                /\ Len(invoked[t]) <= 3

\* C5: the returned status is terminal; it is completed exactly when no step
\* failed and failed exactly when some step failed, and a failed log carries a
\* non-empty error together with the steps recorded so far.
CE_C5_TerminalStatus ==
    \A t \in Tasks :
        Returned(t) =>
            LET log == processing_log[t] IN
            /\ log.status \in {"completed", "failed"}
            /\ (log.status = "completed") <=> ~SomeCallRaised(t)
            /\ (log.status = "failed") <=> SomeCallRaised(t)
            /\ log.status = "failed" => (Len(log.error) = 1 /\ log.error[1] # "")
            /\ Len(log.steps) = Cardinality({i \in DOMAIN invoked[t] : ~invoked[t][i].raised})

\* C6: the routed agent is the assigned agent compared case-insensitively;
\* an unknown, missing or null assigned agent invokes escalation, and the
\* pipeline still completes.
CE_C6_RoutingFailSafe ==
    \A t \in Tasks :
        (pc[t] \notin {"idle", "triage", "route"} /\ ~invoked[t][1].raised) =>
            /\ Len(invoked[t]) >= 2
            /\ invoked[t][2].agent = ExpectedRoute(Get(ticket[t].expectedAgent, S_Escalation))
            /\ (Returned(t) /\ ~SomeCallRaised(t)) => processing_log[t].status = "completed"

----------------------------------------------------------------------------
(* Properties of classify_ticket and search_knowledge *)

FiveAgentNames == {S_Knowledge, S_Automation, S_Escalation, S_Learning, S_Analytics}

\* the completion call of the last classify_ticket raised: the backend
\* raised, or the client was never initialized
CompletionRaised == tr_backend.kind \in {"raise", "not called"}

\* some span of the completion text, from an opening to a closing brace, is
\* a JSON object
HasJsonObject(content) ==
    /\ content.kind = "str"
    /\ \E i \in 1..Len(content.s) : \E j \in i..Len(content.s) :
           IsJsonObject(SubSeq(content.s, i, j))

\* the backend answered, with a text that holds no parseable JSON object
CompletionUnparseable ==
    tr_backend.kind = "response" /\ ~HasJsonObject(tr_backend.content)

\* the search of the last search_knowledge raised: at the call, while the
\* results were read, or because the client was never initialized
SearchRaised ==
    \/ kn_backend.kind \in {"raise", "not called"}
    \/ kn_backend.kind = "results" /\ kn_backend.fail_at > 0

\* C7: whenever the completion call raises (uninitialized client included),
\* classify_ticket returns a result tagged as fallback whose assigned agent is
\* one of the five agents, never empty or null.
Thm_C7_FallbackOnBackendError ==
    (tr_pc = "returned" /\ CompletionRaised) =>
        /\ tr_result.azure_service = FallbackTag
        /\ tr_result.ticket_id = tr_ticket.id
        /\ tr_result.assigned_agent.kind = "str"
        /\ tr_result.assigned_agent.s \in FiveAgentNames

\* the backend raised on an initialized client, the ticket holds no keyword
\* and the rules chose the default agent
Wit_C7_BackendRaised ==
    /\ tr_pc = "returned"
    /\ openai_client = "client"
    /\ tr_backend.kind = "raise"
    /\ tr_ticket.title = T_Printer
    /\ tr_ticket.description = <<>>
    /\ tr_result.assigned_agent = Some(S_Escalation)

\* C8: a completion without a parseable JSON object gives the same result as
\* a raising backend: the keyword-rule fallback classification of the ticket.
CE_C8_UnparseableIsFallback ==
    (tr_pc = "returned" /\ CompletionUnparseable) =>
        tr_result = fallback_classification(tr_ticket)

\* C9: a result whose content was not taken from a usable backend response
\* carries the fallback tag, and a result carries the primary tag only when
\* its content came from the backend response.
CE_C9_SourceTagIsTruthful ==
    /\ tr_pc = "returned" =>
          /\ (CompletionRaised \/ CompletionUnparseable)
                => tr_result.azure_service = FallbackTag
          /\ tr_result.azure_service = PrimaryTag
                => (tr_backend.kind = "response" /\ HasJsonObject(tr_backend.content))
    /\ kn_pc = "returned" =>
          /\ SearchRaised => kn_result.azure_service = KnowledgeFallbackTag
          /\ kn_result.azure_service = KnowledgePrimaryTag => ~SearchRaised

\* C10: zero results without an error is not a fallback: the result is tagged
\* primary, with no match, no best match, results_found 0 and score 0.
Thm_C10_EmptyResultIsPrimary ==
    (kn_pc = "returned" /\ kn_backend.kind = "results"
        /\ kn_backend.fail_at = 0 /\ Len(kn_backend.docs) = 0) =>
        /\ kn_result.azure_service = KnowledgePrimaryTag
        /\ kn_result.has_all_results
        /\ kn_result.all_results = <<>>
        /\ kn_result.best_match = <<>>
        /\ kn_result.results_found = 0
        /\ kn_result.relevance_score = Num(0)

\* the backend answered a ticket that has vocabulary terms with no document
Wit_C10_EmptyResult ==
    /\ kn_pc = "returned"
    /\ search_client = "client"
    /\ kn_backend.kind = "results"
    /\ kn_backend.fail_at = 0
    /\ kn_backend.docs = <<>>
    /\ kn_ticket.title = T_SslSetup
    /\ kn_result.results_found = 0

\* the articles of the local knowledge base, the general guide included
LocalArticles ==
    {mock_knowledge[i].knowledge : i \in 1..Len(mock_knowledge)} \cup {GeneralArticle}

\* C11: whenever the search raises (at the call, while the results are read,
\* or because the client was never initialized), search_knowledge returns the
\* local fallback result for the ticket: tagged as fallback, one local
\* article as best match, and no list of backend results.
Thm_C11_SearchFallbackOnError ==
    (kn_pc = "returned" /\ SearchRaised) =>
        /\ kn_result.azure_service = KnowledgeFallbackTag
        /\ kn_result.ticket_id = kn_ticket.id
        /\ kn_result.search_query = kn_ticket.title
        /\ kn_result.results_found = 1
        /\ Len(kn_result.best_match) = 1
        /\ kn_result.best_match[1] \in LocalArticles
        /\ ~kn_result.has_all_results

\* the second document could not be fetched after the first had been read,
\* and the ticket got the local SSL article
Wit_C11_RaisedWhileReading ==
    /\ kn_pc = "returned"
    /\ search_client = "client"
    /\ kn_backend.kind = "results"
    /\ Len(kn_backend.docs) = 2
    /\ kn_backend.fail_at = 2
    /\ kn_ticket.title = T_SslSetup
    /\ kn_result.best_match = <<mock_knowledge[1].knowledge>>

\* the keyword sets in their fixed order, each with its agent
KeywordSets ==
    << [words |-> KnowledgeWords,  agent |-> S_Knowledge],
       [words |-> AutomationWords, agent |-> S_Automation],
       [words |-> EscalationWords, agent |-> S_Escalation],
       [words |-> AnalyticsWords,  agent |-> S_Analytics] >>

\* the positions of the keyword sets with a keyword in the text
MatchingSets(text) ==
    {i \in 1..Len(KeywordSets) :
        \E k \in 1..Len(KeywordSets[i].words) : Contains(text, KeywordSets[i].words[k])}

\* C12: the fallback classification reads title plus description in lower
\* case; the first keyword set in the fixed order with a keyword in that text
\* gives the agent, whatever later sets match; no matching set gives
\* Escalation; the classification's confidence is 0.85.
Thm_C12_FirstKeywordSetWins ==
    (tr_pc = "returned" /\ tr_result.azure_service = FallbackTag) =>
        LET text == Lower(tr_ticket.title) \o Lower(tr_ticket.description)
            matching == MatchingSets(text)
            first == CHOOSE i \in matching : \A j \in matching : i <= j
            agent == IF matching = {} THEN S_Escalation ELSE KeywordSets[first].agent
        IN /\ tr_result.assigned_agent = Some(agent)
           /\ tr_result.classification.agent = Some(agent)
           /\ tr_result.classification.confidence = Num(85)

\* "Monthly REPORT" with "Deploy the metrics dashboard": the Automation and
\* the Analytics set both match, in mixed case, and Automation was chosen
Wit_C12_LaterSetAlsoMatches ==
    /\ tr_pc = "returned"
    /\ tr_result.azure_service = FallbackTag
    /\ tr_ticket.title = T_Report
    /\ tr_ticket.description = X_Deploy
    /\ MatchingSets(Lower(T_Report) \o Lower(X_Deploy)) = {2, 4}
    /\ tr_result.assigned_agent = Some(S_Automation)

\* the vocabulary positions of the terms occurring in the description
OccurringTerms(description) ==
    {i \in 1..Len(technical_terms) : Contains(Lower(description), technical_terms[i])}

\* the first five of them in vocabulary order
ChosenTerms(description) ==
    LET occurring == OccurringTerms(description)
    IN {i \in occurring : Cardinality({j \in occurring : j < i}) < 5}

RECURSIVE WithTerms(_, _, _)
\* q followed by the chosen vocabulary terms from position i on, each after
\* one space
WithTerms(q, i, chosen) ==
    IF i > Len(technical_terms) THEN q
    ELSE WithTerms(IF i \in chosen THEN q \o <<" ">> \o technical_terms[i] ELSE q,
                   i + 1, chosen)

\* C13: the search query is the title followed by at most 5 vocabulary terms
\* occurring in the description, in vocabulary order; without such a term it
\* is the title alone, and the search request is made all the same.
Thm_C13_QueryIsTitleAndTerms ==
    /\ (kn_pc = "returned" /\ kn_result.azure_service = KnowledgePrimaryTag) =>
          /\ kn_result.search_query =
                 WithTerms(kn_ticket.title, 1, ChosenTerms(kn_ticket.description))
          /\ OccurringTerms(kn_ticket.description) = {}
                 => kn_result.search_query = kn_ticket.title
    /\ (kn_pc = "returned" /\ search_client = "client") => kn_requests = 1

\* nine vocabulary terms occur in the description, "redis" first in the text:
\* the query holds the first five in vocabulary order
Wit_C13_MoreThanFiveTerms ==
    /\ kn_pc = "returned"
    /\ kn_result.azure_service = KnowledgePrimaryTag
    /\ kn_ticket.title = T_SslSetup
    /\ kn_ticket.description = X_ManyTerms
    /\ Cardinality(OccurringTerms(X_ManyTerms)) = 9
    /\ kn_result.search_query =
          T_SslSetup \o <<" ">> \o technical_terms[2] \o <<" ">> \o technical_terms[3]
             \o <<" ">> \o technical_terms[6] \o <<" ">> \o technical_terms[7]
             \o <<" ">> \o technical_terms[9]

\* a description without vocabulary term: the query is the title, the
\* backend was asked and its documents were returned
Wit_C13_NoTerm ==
    /\ kn_pc = "returned"
    /\ kn_result.azure_service = KnowledgePrimaryTag
    /\ kn_ticket.description = X_w
    /\ kn_result.search_query = kn_ticket.title
    /\ kn_requests = 1
    /\ kn_result.results_found = 2

\* C14: a task cancelled while a step was in flight ends by returning its
\* log with the steps recorded before, status failed and error "cancelled".
CE_C14_CancelYieldsFailedLog ==
    \A t \in Tasks :
        (cancelled[t] /\ pc[t] \in {"cancelled", "returned"}) =>
            /\ Returned(t)
            /\ processing_log[t].status = "failed"
            /\ processing_log[t].error = <<"cancelled">>
            /\ Len(processing_log[t].steps) = Len(invoked[t]) - 1

\* C15: a message is completed only after its body was parsed and the
\* handler returned for it; when parsing or the handler raised, abandon is
\* called for the message and it is not completed: it stays with the queue.
Thm_C15_CompleteOnlyAfterHandler ==
    \A m \in Messages :
        LET d == last_delivery[m]
        IN /\ msg_state[m] = "completed" =>
                 /\ BodyIsJson[m]
                 /\ d.handler_called /\ ~d.handler_raised
                 /\ d.completed
           /\ (d.processed /\ (~BodyIsJson[m] \/ d.handler_raised)) =>
                 /\ ~d.complete_called
                 /\ d.abandon_called
                 /\ msg_state[m] \in {"active", "locked", "dead"}

\* the text message could not be parsed, was abandoned and is with the queue
\* for redelivery; the JSON message was completed after its handler returned
Wit_C15_AbandonedAndCompleted ==
    /\ msg_state["m2"] = "active"
    /\ deliveries["m2"] = 1
    /\ last_delivery["m2"].abandoned
    /\ ~last_delivery["m2"].handler_called
    /\ msg_state["m1"] = "completed"
    /\ deliveries["m1"] = 1

\* C16: no message is delivered more than 10 times, and a message whose
\* handler raised (or whose body could not be parsed) on each of 10 deliveries
\* is dead-lettered once the last of them is released.
Thm_C16_DeadLetterAfterTenDeliveries ==
    \A m \in Messages :
        /\ deliveries[m] <= 10
        /\ (deliveries[m] = 10 /\ msg_state[m] # "locked"
               /\ (all_failed[m] \/ ~BodyIsJson[m]))
              => msg_state[m] = "dead"

\* the handler raised on all 10 deliveries of the JSON message, which is now
\* in the dead-letter queue
Wit_C16_DeadLettered ==
    /\ BodyIsJson["m1"]
    /\ all_failed["m1"]
    /\ deliveries["m1"] = 10
    /\ last_delivery["m1"].handler_raised
    /\ msg_state["m1"] = "dead"

\* the log an invocation returns
ReturnedLog(t) == processing_log[log_of(t)]

\* the log of a ticket processed alone, given which of its agent calls raised
\* and the text of the exception
AloneLog(tk, calls, msg) ==
    LET triage_result == process_with_agent(S_triage, tk)
        entry == Get(triage_result.assigned_agent, S_escalation)
        assigned_agent == Lower(entry.s)
        agent_result == process_with_agent(RoutedAgent(assigned_agent), tk)
        all == << [agent |-> S_triage, duration |-> D_2_3s, result |-> triage_result],
                  [agent |-> assigned_agent,
                   duration |-> Get(agent_result.processing_time, D_60s).s,
                   result |-> agent_result],
                  [agent |-> S_analytics, duration |-> D_0_5s,
                   result |-> process_with_agent(S_analytics, tk)] >>
        done == Cardinality({i \in DOMAIN calls : ~calls[i].raised})
        steps == SubSeq(all, 1, done)
    IN [ticket_id  |-> tk.id,
        start_time |-> TRUE,
        steps      |-> steps,
        total_time |-> IF done = 3
                       THEN [kind |-> "str", s |-> FormatSeconds(SumDurations(steps))]
                       ELSE [kind |-> "int", s |-> <<"0">>],
        status     |-> IF done = 3 THEN "completed" ELSE "failed",
        error      |-> IF done = 3 THEN <<>> ELSE <<msg>>,
        end_time   |-> done = 3]

\* C17: under every interleaving of concurrent invocations, a returned log
\* holds the id and the step records of its own ticket only and equals the
\* log the ticket gets when processed alone with the same agent outcomes.
Thm_C17_ConcurrentLogsIndependent ==
    \A t \in Tasks :
        Returned(t) =>
            /\ ReturnedLog(t).ticket_id = ticket[t].id
            /\ \A i \in DOMAIN ReturnedLog(t).steps :
                   ReturnedLog(t).steps[i].result
                      = process_with_agent(invoked[t][i].agent, ticket[t])
            /\ ReturnedLog(t) = AloneLog(ticket[t], invoked[t], exc[t])

\* invocation 2 started after invocation 1, ran all its steps and returned
\* its completed log while invocation 1, on another ticket, was still
\* between its triage and its routed step
Wit_C17_ReturnedWhileOtherInFlight ==
    /\ pc[1] = "route"
    /\ Returned(2)
    /\ ticket[1].id # ticket[2].id
    /\ ticket[1].expectedAgent # ticket[2].expectedAgent
    /\ processing_log[2].status = "completed"
    /\ Len(processing_log[1].steps) = 1

\* the completion of the last classify_ticket is one JSON object
CompletionIsObject ==
    /\ tr_backend.kind = "response"
    /\ tr_backend.content.kind = "str"
    /\ IsJsonObject(tr_backend.content.s)

\* that object has a member with the key
CompletionHas(key) ==
    \E i \in 1..Len(tr_backend.content.s) :
        tr_backend.content.s[i].t = "member" /\ tr_backend.content.s[i].key = key

\* C18: for a completion that is a JSON object lacking fields, the result
\* is tagged primary, a missing agent is given as Escalation and a missing
\* confidence as 0.8.
CE_C18_MissingFieldDefaults ==
    (tr_pc = "returned" /\ CompletionIsObject) =>
        /\ tr_result.azure_service = PrimaryTag
        /\ ~CompletionHas("agent") => tr_result.assigned_agent = Some(S_Escalation)
        /\ ~CompletionHas("confidence") => tr_result.confidence = Num(80)

\* C19: the assigned agent of every result of classify_ticket, primary or
\* fallback, is one of Knowledge, Automation, Escalation, Learning, Analytics.
CE_C19_AssignedAgentIsOneOfFive ==
    tr_pc = "returned" =>
        /\ tr_result.assigned_agent.kind = "str"
        /\ tr_result.assigned_agent.s \in FiveAgentNames

\* the search of the last search_knowledge call returned all its documents
SearchSucceeded ==
    /\ kn_pc = "returned"
    /\ kn_backend.kind = "results"
    /\ kn_backend.fail_at = 0

\* a field of a returned item shows the document's field, None when absent
Shows(field, doc_field) ==
    field = IF doc_field.kind = "missing" THEN None ELSE doc_field

\* the returned item is the backend document, with score 0 when it has none
ItemOfDoc(item, doc) ==
    /\ Shows(item.id, doc.id)
    /\ Shows(item.title, doc.title)
    /\ Shows(item.content, doc.content)
    /\ Shows(item.category, doc.category)
    /\ item.relevance_score = IF doc.score.kind = "missing" THEN Num(0) ELSE doc.score

\* C20: a successful search returns the backend's documents one for one in
\* the backend's order; the best match is the first, results_found is their
\* number and the relevance score is the best match's score.
Thm_C20_BackendOrderKept ==
    SearchSucceeded =>
        LET docs == kn_backend.docs
            items == kn_result.all_results
        IN /\ kn_result.azure_service = KnowledgePrimaryTag
           /\ kn_result.has_all_results
           /\ Len(items) = Len(docs)
           /\ \A i \in 1..Len(docs) : ItemOfDoc(items[i], docs[i])
           /\ kn_result.results_found = Len(docs)
           /\ kn_result.best_match = IF Len(docs) > 0 THEN <<items[1]>> ELSE <<>>
           /\ Len(docs) > 0 =>
                 /\ ItemOfDoc(kn_result.best_match[1], docs[1])
                 /\ kn_result.relevance_score = kn_result.best_match[1].relevance_score

\* the backend put a document without score before one with score 0.92:
\* both are returned in that order and the unscored one is the best match
Wit_C20_UnscoredFirst ==
    /\ SearchSucceeded
    /\ Len(kn_backend.docs) = 2
    /\ kn_backend.docs[1].score = Missing
    /\ kn_backend.docs[2].score = Num(92)
    /\ kn_result.results_found = 2
    /\ kn_result.best_match[1].id = Some(S_kb3)
    /\ kn_result.relevance_score = Num(0)

\* the positions of the local keys occurring in the text
MatchingKeys(text) ==
    {i \in 1..Len(mock_knowledge) : Contains(text, mock_knowledge[i].key)}

\* C21: the fallback search returns exactly one article: that of the first
\* key in the order ssl, deployment, database occurring in the lower-cased
\* title plus description, the general guide when none occurs; the relevance
\* score is 0.85.
Thm_C21_FirstKeyArticle ==
    (kn_pc = "returned" /\ kn_result.azure_service = KnowledgeFallbackTag) =>
        LET matching == MatchingKeys(Lower(kn_ticket.title) \o Lower(kn_ticket.description))
            first == CHOOSE i \in matching : \A j \in matching : i <= j
        IN /\ mock_knowledge[1].key = K_ssl
           /\ mock_knowledge[2].key = K_deployment
           /\ mock_knowledge[3].key = K_database
           /\ kn_result.results_found = 1
           /\ ~kn_result.has_all_results
           /\ kn_result.best_match =
                 << IF matching = {} THEN GeneralArticle
                    ELSE mock_knowledge[first].knowledge >>
           /\ kn_result.relevance_score = Num(85)

\* "Database DEPLOYMENT" with a description naming a database: the keys
\* deployment and database both occur and the deployment article is returned
Wit_C21_TwoKeysMatch ==
    /\ kn_pc = "returned"
    /\ kn_result.azure_service = KnowledgeFallbackTag
    /\ kn_ticket.title = T_DbDeploy
    /\ kn_ticket.description = X_ManyTerms
    /\ MatchingKeys(Lower(T_DbDeploy) \o Lower(X_ManyTerms)) = {2, 3}
    /\ kn_result.best_match[1].title = Some(A_DeployTitle)

\* no key occurs in the ticket: the general guide is returned
Wit_C21_NoKey ==
    /\ kn_pc = "returned"
    /\ kn_result.azure_service = KnowledgeFallbackTag
    /\ kn_ticket.title = T_Printer
    /\ kn_ticket.description = X_w
    /\ kn_result.best_match = <<GeneralArticle>>

\* how often an event occurs in the events of a call
Count(events, e) == Cardinality({i \in DOMAIN events : events[i] = e})

\* at most one attempt and one request; the fallback runs only after the
\* attempt, and only when the attempt raised
SingleAttemptThenFallback(events, raised) ==
    /\ Count(events, "attempt") <= 1
    /\ Count(events, "request") <= 1
    /\ \A i \in DOMAIN events :
          events[i] = "fallback" =>
             /\ raised
             /\ \E j \in 1..(i - 1) : events[j] = "attempt"
             /\ \A j \in (i + 1)..Len(events) : events[j] \notin {"attempt", "request"}

CE_C23_TerminalLogIsFrozen ==
    [][\A t \in Tasks :
          processing_log[t].status \in {"completed", "failed"}
             => processing_log'[t] = processing_log[t]]_vars

\* C24: in a returned log the second step record names the agent that was
\* invoked for that step.
CE_C24_SecondStepNamesInvokedAgent ==
    \A t \in Tasks :
        (Returned(t) /\ Len(processing_log[t].steps) >= 2) =>
            processing_log[t].steps[2].agent = invoked[t][2].agent

\* C25: in a returned log every step record's duration is the processing
\* time its own result reports, and records of the same agent carry the same
\* duration.
CE_C25_DurationIsReportedTime ==
    \A t \in Tasks :
        Returned(t) =>
            LET steps == processing_log[t].steps
            IN /\ \A i \in DOMAIN steps :
                     steps[i].result.processing_time = Some(steps[i].duration)
               /\ \A i, j \in DOMAIN steps :
                     steps[i].agent = steps[j].agent
                        => steps[i].duration = steps[j].duration

\* C26: every result of classify_ticket, fallback or primary, has the
\* top-level entries confidence, assigned_agent, priority and processing_time,
\* and every result of search_knowledge has best_match, results_found and
\* all_results.
CE_C26_SameFieldsOnBothPaths ==
    /\ tr_pc = "returned" =>
          /\ tr_result.confidence.kind # "missing"
          /\ tr_result.assigned_agent.kind # "missing"
          /\ tr_result.priority.kind # "missing"
          /\ tr_result.processing_time.kind # "missing"
    /\ kn_pc = "returned" =>
          /\ Len(kn_result.best_match) <= 1
          /\ kn_result.results_found >= 0
          /\ kn_result.has_all_results


\* C27: on one initialized coordinator, finishing a send_message or
\* receive_messages call neither closes the shared client nor invalidates
\* the sender or receiver of a call that is still in flight.
CE_C27_FinishedCallLeavesClientUsable ==
    /\ servicebus_client # "closed"
    /\ rx_pc \in {"receiving", "handling"} => rx_live
    /\ tx_pc = "sending" => tx_live


\* what went wrong while one message was processed: the body did not parse,
\* the handler raised, or complete_message or abandon_message raised
ProcessingFailed(d) ==
    /\ d.processed
    /\ \/ ~d.handler_called
       \/ d.handler_raised
       \/ d.complete_called /\ ~d.completed
       \/ d.abandon_called /\ ~d.abandoned

\* C29: a failure while processing one message (parse error, handler error,
\* or an error raised by complete or abandon) does not end the
\* receive_messages loop, which goes on to the messages delivered afterwards.
CE_C29_FailureKeepsLoopRunning ==
    \A m \in Messages :
        ProcessingFailed(last_delivery[m]) => ~last_delivery[m].loop_ends


\* the stored entries marked successful
SuccessfulEntries == {i \in 1..Len(feedback_data) : feedback_data[i].successful}

\* C30: after any sequence of feedback submissions, total_tickets is the
\* number of stored entries, successful_resolutions is the number of stored
\* entries marked successful and so never exceeds total_tickets, and the
\* n-th submission was answered with feedback id FB-n, so the ids differ.
Thm_C30_CountersMatchFeedback ==
    /\ performance_metrics.total_tickets = Len(feedback_data)
    /\ performance_metrics.successful_resolutions = Cardinality(SuccessfulEntries)
    /\ performance_metrics.successful_resolutions <= performance_metrics.total_tickets
    /\ Len(fb_responses) = Len(feedback_data)
    /\ \A n \in 1..Len(fb_responses) :
          /\ SubSeq(fb_responses[n].feedback_id, 1, 3) = S_FB
          /\ ParseInt(SubSeq(fb_responses[n].feedback_id, 4,
                             Len(fb_responses[n].feedback_id))) = n
    /\ \A i, j \in 1..Len(fb_responses) :
          i # j => fb_responses[i].feedback_id # fb_responses[j].feedback_id

\* several submissions were made, some successful and some not
Wit_C30_MixedFeedback ==
    /\ Len(feedback_data) >= 3
    /\ SuccessfulEntries # {}
    /\ SuccessfulEntries # 1..Len(feedback_data)


\* the items search_knowledge had built from the backend's documents before
\* fetching the next one raised
ItemsReadBeforeRaise ==
    {KnowledgeItem(kn_backend.docs[i]) : i \in 1..(kn_backend.fail_at - 1)}

\* the items a result shows, as best match or in its list of all results
ItemsShown(result) ==
    {result.best_match[i] : i \in 1..Len(result.best_match)}
      \cup {result.all_results[i] : i \in 1..Len(result.all_results)}

\* C28: when the backend raises while its results are iterated, after some
\* matches were already read, search_knowledge returns the complete fallback
\* result only: none of the matches read appears in it.
Thm_C28_NoPartialPrimaryResult ==
    (/\ kn_pc = "returned"
     /\ kn_backend.kind = "results"
     /\ kn_backend.fail_at > 1) =>
        /\ ItemsShown(kn_result) \cap ItemsReadBeforeRaise = {}
        /\ kn_result.azure_service = KnowledgeFallbackTag
        /\ kn_result.results_found = 1
        /\ ItemsShown(kn_result) \subseteq LocalArticles
        /\ ItemsShown(kn_result) # {}
        /\ kn_result.relevance_score = Num(85)
        /\ kn_result.processing_time = Some(D_0_8s)

\* a scored match had been read when fetching the next document raised, and
\* the printer ticket got the general guide
Wit_C28_RaisedAfterScoredMatch ==
    /\ kn_pc = "returned"
    /\ kn_backend.kind = "results"
    /\ kn_backend.fail_at > 1
    /\ kn_backend.docs[1].score = Num(92)
    /\ kn_ticket.title = T_Printer
    /\ kn_result.best_match = <<GeneralArticle>>

====
